---- MODULE Spec2Model ----
(***************************************************************************)
(* Model of utils/mock_server.py: the Flask handler report() bound to      *)
(* POST /report.  A request is its raw body, delivered with a JSON content *)
(* type; the handler is followed statement by statement (lines 9..35), one *)
(* frame of locals per worker, the log stream shared by all workers.       *)
(***************************************************************************)
EXTENDS Integers, Sequences, FiniteSets, TLC

VARIABLES pc, body, data, missing_fields, resp, rid, log, accepted, prior

vars == <<pc, body, data, missing_fields, resp, rid, log, accepted, prior>>

\* ------------------------------------------------------------------ bounds
\* Number of requests the server accepts in one behaviour.
MaxRequests == 2

\* Worker threads of the host server.
Workers == {"w1", "w2"}

\* A local of report() that has not been assigned yet.
Unset == [type |-> "unset"]

\* ------------------------------------------------------ JSON values (json.loads)
required_fields == <<"hostname", "uptime", "memory", "disk">>

FieldNames == {required_fields[i] : i \in 1..Len(required_fields)}

\* Python types json.loads produces for a JSON value.
JsonTypes == {"NoneType", "bool", "int", "float", "str", "list", "dict"}

Absent == "absent"

\* Raw bodies the JSON parser rejects.
BadBodies == {[kind |-> "bad", why |-> w] : w \in {"empty", "truncated", "plain text"}}

\* A parsed object: for each required key its value's type or Absent, and
\* whether keys other than the required ones are present.
DictValues ==
    {[type |-> "dict", items |-> f, extra |-> x] :
        f \in [FieldNames -> JsonTypes \cup {Absent}],
        x \in BOOLEAN}

\* A parsed array or string: the required names it contains (as elements of
\* the array, as substrings of the string).
SeqValues == {[type |-> t, has |-> s] : t \in {"list", "str"}, s \in SUBSET FieldNames}

ScalarValues == {[type |-> t] : t \in {"NoneType", "bool", "int", "float"}}

JsonValues == DictValues \cup SeqValues \cup ScalarValues

Bodies == BadBodies \cup {[kind |-> "json", value |-> v] : v \in JsonValues}

Row(h, u, m, d) ==
    [hostname |-> h, uptime |-> u, memory |-> m, disk |-> d]

\* One body per outcome of the handler, for the threaded server.
ConcBodies ==
    { [kind |-> "bad", why |-> "truncated"],
      [kind |-> "json", value |-> [type |-> "NoneType"]],
      [kind |-> "json", value |-> [type |-> "int"]],
      [kind |-> "json", value |-> [type |-> "list", has |-> FieldNames]],
      [kind |-> "json", value |-> [type |-> "dict", extra |-> FALSE,
                                   items |-> Row("str", Absent, Absent, Absent)]],
      [kind |-> "json", value |-> [type |-> "dict", extra |-> FALSE,
                                   items |-> Row("int", "int", "str", "str")]],
      [kind |-> "json", value |-> [type |-> "dict", extra |-> FALSE,
                                   items |-> Row("str", "int", "str", "str")]] }

\* ------------------------------------------------------- library behaviour
\* request.get_json() with its default arguments: the parsed value, or a
\* BadRequest raised by on_json_loading_failed when the parser rejects the body.
get_json(b) ==
    IF b.kind = "bad"
    THEN [raised |-> TRUE, text |-> "400 Bad Request: Failed to decode JSON object"]
    ELSE [raised |-> FALSE, value |-> b.value]

\* Whether Python's `in` is defined on the value at all.
SupportsIn(d) == d.type \in {"dict", "list", "str"}

\* field in data: key of a dict, element of a list, substring of a str.
Contains(field, d) ==
    IF d.type = "dict" THEN d.items[field] # Absent ELSE field \in d.has

\* str(e) of the TypeError raised by `field in data` on a value without `in`.
NotIterableText(d) ==
    CASE d.type = "bool"     -> "argument of type 'bool' is not iterable"
      [] d.type = "int"      -> "argument of type 'int' is not iterable"
      [] d.type = "float"    -> "argument of type 'float' is not iterable"
      [] OTHER               -> "argument of type 'NoneType' is not iterable"

\* str(e) of the TypeError raised by data["hostname"] on a list or a str.
BadIndexText(d) ==
    IF d.type = "list" THEN "list indices must be integers or slices, not str"
                       ELSE "string indices must be integers"

\* isinstance(value, cls) on the type of the value; bool is a subclass of int.
isinstance(t, cls) ==
    CASE cls = "str" -> t = "str"
      [] cls = "int" -> t \in {"int", "bool"}

RECURSIVE join(_, _)
\* sep.join(names)
join(sep, names) ==
    IF names = <<>> THEN ""
    ELSE IF Len(names) = 1 THEN names[1]
    ELSE names[1] \o sep \o join(sep, Tail(names))

\* jsonify({key: text}), status
jsonify(key, text, status) == [status |-> status, key |-> key, text |-> text]

\* ------------------------------------------------------- statements of report()
\* line 18: [field for field in required_fields if field not in data]
missing_of(d) == SelectSeq(required_fields, LAMBDA field : ~Contains(field, d))

\* Variant of the type check that also wants memory to be a string.
invalid_types_memory(d) ==
    \/ ~isinstance(d.items["hostname"], "str")
    \/ ~isinstance(d.items["uptime"], "int")
    \/ ~isinstance(d.items["memory"], "str")

\* line 27: not isinstance(data["hostname"], str) or not isinstance(data["uptime"], int)
invalid_types(d) ==
    \/ ~isinstance(d.items["hostname"], "str")
    \/ ~isinstance(d.items["uptime"], "int")

\* Variant of the handler of exceptions that answers with a server error.
on_exception_500(text) == jsonify("error", text, 500)

\* lines 34-35: except Exception as e: return jsonify({"error": str(e)}), 400
on_exception(text) == jsonify("error", text, 400)

\* One line written to the log stream by request r.
Line(r, what) == [rid |-> r, what |-> what]

Init ==
    /\ pc = [w \in Workers |-> "idle"]
    /\ body = [w \in Workers |-> Unset]
    /\ data = [w \in Workers |-> Unset]
    /\ missing_fields = [w \in Workers |-> <<>>]
    /\ resp = [w \in Workers |-> Unset]
    /\ rid = [w \in Workers |-> 0]
    /\ prior = [w \in Workers |-> Unset]
    /\ log = <<>>
    /\ accepted = 0

\* The host server hands a request, its body any of pool, to worker w, which enters report() with a
\* fresh frame.
Receive(w, pool) ==
    /\ pc[w] = "idle"
    /\ accepted < MaxRequests
    /\ accepted' = accepted + 1
    /\ rid' = [rid EXCEPT ![w] = accepted + 1]
    /\ \E b \in pool : body' = [body EXCEPT ![w] = b]
    /\ pc' = [pc EXCEPT ![w] = "l9"]
    /\ UNCHANGED <<data, missing_fields, resp, log, prior>>

\* line 9: print("request.user_agent=" + str(request.user_agent))
LogUserAgent(w) ==
    /\ pc[w] = "l9"
    /\ log' = Append(log, Line(rid[w], "user_agent"))
    /\ pc' = [pc EXCEPT ![w] = "l10"]
    /\ UNCHANGED <<body, data, missing_fields, resp, rid, accepted, prior>>

\* Variant of line 10 that writes nothing.
LogDataQuiet(w) ==
    /\ pc[w] = "l10"
    /\ pc' = [pc EXCEPT ![w] = "l12"]
    /\ UNCHANGED <<body, data, missing_fields, resp, rid, log, accepted, prior>>

\* line 10: print("request.data=" + str(request.data))
LogData(w) ==
    /\ pc[w] = "l10"
    /\ log' = Append(log, Line(rid[w], "data"))
    /\ pc' = [pc EXCEPT ![w] = "l12"]
    /\ UNCHANGED <<body, data, missing_fields, resp, rid, accepted, prior>>

\* Leave report() with response r.
Return(w, r) ==
    /\ resp' = [resp EXCEPT ![w] = r]
    /\ pc' = [pc EXCEPT ![w] = "done"]

\* Variant of lines 12-14 in which data is a module-level name shared by all
\* workers.
ParseShared(w) ==
    /\ pc[w] = "l12"
    /\ LET got == get_json(body[w]) IN
         IF got.raised
         THEN /\ Return(w, on_exception(got.text))
              /\ UNCHANGED data
         ELSE /\ data' = [x \in Workers |-> got.value]
              /\ IF got.value.type = "NoneType"
                 THEN Return(w, jsonify("error", "Invalid JSON", 400))
                 ELSE /\ pc' = [pc EXCEPT ![w] = "l17"]
                      /\ UNCHANGED resp
    /\ UNCHANGED <<body, missing_fields, rid, log, accepted, prior>>

\* lines 12-14: data = request.get_json(); if data is None: return Invalid JSON
Parse(w) ==
    /\ pc[w] = "l12"
    /\ LET got == get_json(body[w]) IN
         IF got.raised
         THEN /\ Return(w, on_exception(got.text))
              /\ UNCHANGED data
         ELSE /\ data' = [data EXCEPT ![w] = got.value]
              /\ IF got.value.type = "NoneType"
                 THEN Return(w, jsonify("error", "Invalid JSON", 400))
                 ELSE /\ pc' = [pc EXCEPT ![w] = "l17"]
                      /\ UNCHANGED resp
    /\ UNCHANGED <<body, missing_fields, rid, log, accepted, prior>>

\* Variant of lines 17-24 that validates the type of hostname before it looks
\* for absent fields.
CheckMissingTypesFirst(w) ==
    /\ pc[w] = "l17"
    /\ IF ~SupportsIn(data[w])
       THEN /\ Return(w, on_exception(NotIterableText(data[w])))
            /\ UNCHANGED missing_fields
       ELSE IF /\ data[w].type = "dict"
               /\ data[w].items["hostname"] # Absent
               /\ ~isinstance(data[w].items["hostname"], "str")
       THEN /\ Return(w, jsonify("error", "Invalid field types", 400))
            /\ UNCHANGED missing_fields
       ELSE /\ missing_fields' = [missing_fields EXCEPT ![w] = missing_of(data[w])]
            /\ IF missing_of(data[w]) # <<>>
               THEN Return(w, jsonify("error",
                         "Missing fields: " \o join(", ", missing_of(data[w])), 400))
               ELSE /\ pc' = [pc EXCEPT ![w] = "l27"]
                    /\ UNCHANGED resp
    /\ UNCHANGED <<body, data, rid, log, accepted, prior>>

\* lines 17-24: collect the absent required fields and answer if there are any
CheckMissing(w) ==
    /\ pc[w] = "l17"
    /\ IF ~SupportsIn(data[w])
       THEN /\ Return(w, on_exception(NotIterableText(data[w])))
            /\ UNCHANGED missing_fields
       ELSE /\ missing_fields' = [missing_fields EXCEPT ![w] = missing_of(data[w])]
            /\ IF missing_of(data[w]) # <<>>
               THEN Return(w, jsonify("error",
                         "Missing fields: " \o join(", ", missing_of(data[w])), 400))
               ELSE /\ pc' = [pc EXCEPT ![w] = "l27"]
                    /\ UNCHANGED resp
    /\ UNCHANGED <<body, data, rid, log, accepted, prior>>

\* Variant of lines 27-28 that dumps the parsed body before it validates it.
CheckTypesLogFirst(w) ==
    /\ pc[w] = "l27"
    /\ log' = Append(log, Line(rid[w], "jsonifyed_data"))
    /\ IF data[w].type # "dict"
       THEN Return(w, on_exception(BadIndexText(data[w])))
       ELSE IF invalid_types(data[w])
            THEN Return(w, jsonify("error", "Invalid field types", 400))
            ELSE /\ pc' = [pc EXCEPT ![w] = "l32"]
                 /\ UNCHANGED resp
    /\ UNCHANGED <<body, data, missing_fields, rid, accepted, prior>>

\* lines 27-28: validate field types
CheckTypes(w) ==
    /\ pc[w] = "l27"
    /\ IF data[w].type # "dict"
       THEN Return(w, on_exception(BadIndexText(data[w])))
       ELSE IF invalid_types(data[w])
            THEN Return(w, jsonify("error", "Invalid field types", 400))
            ELSE /\ pc' = [pc EXCEPT ![w] = "l30"]
                 /\ UNCHANGED resp
    /\ UNCHANGED <<body, data, missing_fields, rid, log, accepted, prior>>

\* line 30: print("jsonifyed_data=\n" + json.dumps(data, indent=4, sort_keys=True))
LogParsed(w) ==
    /\ pc[w] = "l30"
    /\ log' = Append(log, Line(rid[w], "jsonifyed_data"))
    /\ pc' = [pc EXCEPT ![w] = "l32"]
    /\ UNCHANGED <<body, data, missing_fields, resp, rid, accepted, prior>>

\* Variant of line 32 that remembers, through the log, that a report has been
\* received before and answers a later one differently.
AcceptOnce(w) ==
    /\ pc[w] = "l32"
    /\ IF \E i \in 1..Len(log) : log[i].what = "jsonifyed_data" /\ log[i].rid # rid[w]
       THEN Return(w, jsonify("message", "Report updated", 200))
       ELSE Return(w, jsonify("message", "Report received", 201))
    /\ UNCHANGED <<body, data, missing_fields, rid, log, accepted, prior>>

\* line 32: return jsonify({"message": "Report received"}), 201
Accept(w) ==
    /\ pc[w] = "l32"
    /\ Return(w, jsonify("message", "Report received", 201))
    /\ UNCHANGED <<body, data, missing_fields, rid, log, accepted, prior>>

\* The host server sends the response; the frame of report() is gone and the
\* worker is free again.
Send(w) ==
    /\ pc[w] = "done"
    /\ pc' = [pc EXCEPT ![w] = "idle"]
    /\ body' = [body EXCEPT ![w] = Unset]
    /\ data' = [data EXCEPT ![w] = Unset]
    /\ missing_fields' = [missing_fields EXCEPT ![w] = <<>>]
    /\ resp' = [resp EXCEPT ![w] = Unset]
    /\ prior' = [prior EXCEPT ![w] = Unset]
    /\ UNCHANGED <<rid, log, accepted>>

\* The response is sent and the client issues the same request once more; the
\* same worker serves it, again with a fresh frame.  prior keeps the answer
\* the first request got.
Resend(w) ==
    /\ pc[w] = "done"
    /\ accepted < MaxRequests
    /\ accepted' = accepted + 1
    /\ rid' = [rid EXCEPT ![w] = accepted + 1]
    /\ prior' = [prior EXCEPT ![w] = resp[w]]
    /\ data' = [data EXCEPT ![w] = Unset]
    /\ missing_fields' = [missing_fields EXCEPT ![w] = <<>>]
    /\ resp' = [resp EXCEPT ![w] = Unset]
    /\ pc' = [pc EXCEPT ![w] = "l9"]
    /\ UNCHANGED <<body, log>>

Step(w) ==
    \/ LogUserAgent(w)
    \/ LogData(w)
    \/ Parse(w)
    \/ CheckMissing(w)
    \/ CheckTypes(w)
    \/ LogParsed(w)
    \/ Accept(w)
    \/ Send(w)
    \/ Resend(w)

\* report() run from entry to return on body b with nothing else running:
\* the response and the log lines it writes, in order.
report(b) ==
    LET head == <<"user_agent", "data">>
        got == get_json(b)
        d == got.value
    IN  IF got.raised
        THEN [resp |-> on_exception(got.text), lines |-> head]
        ELSE IF d.type = "NoneType"
        THEN [resp |-> jsonify("error", "Invalid JSON", 400), lines |-> head]
        ELSE IF ~SupportsIn(d)
        THEN [resp |-> on_exception(NotIterableText(d)), lines |-> head]
        ELSE IF missing_of(d) # <<>>
        THEN [resp |-> jsonify("error", "Missing fields: " \o join(", ", missing_of(d)), 400),
              lines |-> head]
        ELSE IF d.type # "dict"
        THEN [resp |-> on_exception(BadIndexText(d)), lines |-> head]
        ELSE IF invalid_types(d)
        THEN [resp |-> jsonify("error", "Invalid field types", 400), lines |-> head]
        ELSE [resp |-> jsonify("message", "Report received", 201),
              lines |-> Append(head, "jsonifyed_data")]

\* The development server with one worker, over every body.
Next ==
    \/ Receive("w1", Bodies)
    \/ Step("w1")

Spec == Init /\ [][Next]_vars

\* The threaded server, over one body per outcome.
NextConc ==
    \/ \E w \in Workers : Receive(w, ConcBodies)
    \/ \E w \in Workers : Step(w)

SpecConc == Init /\ [][NextConc]_vars

\* ------------------------------------------------------------ vocabulary
\* Worker w has left report() and its response has not been sent yet.
Done(w) == pc[w] = "done"

\* The request worker w is serving has a body the JSON parser accepts.
Parses(w) == pc[w] # "idle" /\ body[w].kind = "json"

\* The parsed body of the request worker w is serving.
Value(w) == body[w].value

\* What request r has written to the log stream so far, in order.
LinesOf(r) ==
    LET own == SelectSeq(log, LAMBDA l : l.rid = r)
    IN  [i \in 1..Len(own) |-> own[i].what]

Count(what, lines) == Cardinality({i \in 1..Len(lines) : lines[i] = what})

IsPrefix(p, q) == Len(p) <= Len(q) /\ SubSeq(q, 1, Len(p)) = p

\* The required keys an object lacks.
AbsentKeys(v) == {f \in FieldNames : v.items[f] = Absent}

\* The names of S in the order hostname, uptime, memory, disk.
InOrder(S) ==
    LET pick(f) == IF f \in S THEN <<f>> ELSE <<>>
    IN  pick("hostname") \o pick("uptime") \o pick("memory") \o pick("disk")

\* The names of a non-empty S, comma-space separated.
Listed(S) ==
    LET q == InOrder(S)
    IN  CASE Len(q) = 1 -> q[1]
          [] Len(q) = 2 -> q[1] \o ", " \o q[2]
          [] Len(q) = 3 -> q[1] \o ", " \o q[2] \o ", " \o q[3]
          [] Len(q) = 4 -> q[1] \o ", " \o q[2] \o ", " \o q[3] \o ", " \o q[4]

InvalidJson == [status |-> 400, key |-> "error", text |-> "Invalid JSON"]
InvalidFieldTypes == [status |-> 400, key |-> "error", text |-> "Invalid field types"]
ReportReceived == [status |-> 201, key |-> "message", text |-> "Report received"]
MissingFields(S) == [status |-> 400, key |-> "error", text |-> "Missing fields: " \o Listed(S)]

\* The descriptions of the failures the statements of report() can raise.
FailureTexts ==
    { "400 Bad Request: Failed to decode JSON object",
      "argument of type 'bool' is not iterable",
      "argument of type 'int' is not iterable",
      "argument of type 'float' is not iterable",
      "list indices must be integers or slices, not str",
      "string indices must be integers" }

\* ---------------------------------------------------------------- claims
\* C1: a request whose body is not valid JSON, or parses to JSON null, is
\* answered with 400 and exactly {"error": "Invalid JSON"}, never with the
\* catch-all body.
C1_InvalidJson ==
    \A w \in Workers :
        (Done(w) /\ (body[w].kind = "bad" \/ Value(w).type = "NoneType"))
            => resp[w] = InvalidJson

\* C2: when all four keys are present and hostname is not a JSON string or
\* uptime is not a JSON integer (a string, float, boolean, null, array or
\* object), the answer is 400 {"error": "Invalid field types"}, never 201.
C2_InvalidFieldTypes ==
    \A w \in Workers :
        (/\ Done(w)
         /\ Parses(w)
         /\ Value(w).type = "dict"
         /\ AbsentKeys(Value(w)) = {}
         /\ (Value(w).items["hostname"] # "str" \/ Value(w).items["uptime"] # "int"))
            => resp[w] = InvalidFieldTypes

\* C3: a non-null parsed value that lacks one or more required keys (the empty
\* object, and arrays, numbers, booleans and strings, which have no keys at
\* all) is answered with 400 {"error": "Missing fields: <names>"}, the names
\* being exactly the absent keys in the order hostname, uptime, memory, disk.
C3_MissingFields ==
    \A w \in Workers :
        (Done(w) /\ Parses(w) /\ Value(w).type # "NoneType")
            => LET absent == IF Value(w).type = "dict" THEN AbsentKeys(Value(w))
                                                       ELSE FieldNames
               IN  absent # {} => resp[w] = MissingFields(absent)

C5_AlwaysResponds ==
    \A w \in Workers :
        /\ Done(w) <=> resp[w] # Unset
        /\ Done(w) =>
             /\ resp[w].status \in {201, 400}
             /\ resp[w].status = 201 <=> resp[w].key = "message"
             /\ resp[w].status = 201 <=> resp[w].text = "Report received"
             /\ resp[w].status = 400 <=> resp[w].key = "error"
             /\ LET raises ==
                      \/ body[w].kind = "bad"
                      \/ Value(w).type \in {"bool", "int", "float"}
                      \/ Value(w).type \in {"list", "str"} /\ Value(w).has = FieldNames
                IN  raises => /\ resp[w].status = 400
                              /\ resp[w].key = "error"
                              /\ resp[w].text \in FailureTexts

C5_Witness ==
    \E w \in Workers :
        /\ Done(w)
        /\ Parses(w)
        /\ Value(w).type = "list"
        /\ resp[w] = [status |-> 400, key |-> "error",
                      text |-> "list indices must be integers or slices, not str"]

C8_Isolation ==
    \A w \in Workers :
        pc[w] # "idle" =>
            /\ IsPrefix(LinesOf(rid[w]), report(body[w]).lines)
            /\ Done(w) => /\ resp[w] = report(body[w]).resp
                          /\ LinesOf(rid[w]) = report(body[w]).lines

C8_Witness ==
    \E w, x \in Workers :
        /\ w # x
        /\ Done(w) /\ Done(x)
        /\ resp[w].status = 201
        /\ resp[x].status = 400
        /\ Len(log) = 5
        /\ log[1].rid # log[2].rid
        /\ log[2].rid # log[3].rid
        /\ log[3].rid # log[4].rid

\* C9: the checks run in the order null check, key presence, types, and the
\* first that fails decides: a null body is Invalid JSON, an object lacking a
\* required key is answered with the missing fields even when hostname or
\* uptime is wrongly typed, and Invalid field types needs all four keys.
C9_CheckOrder ==
    \A w \in Workers :
        (Done(w) /\ Parses(w)) =>
            /\ Value(w).type = "NoneType" => resp[w] = InvalidJson
            /\ (Value(w).type = "dict" /\ AbsentKeys(Value(w)) # {})
                   => resp[w] = MissingFields(AbsentKeys(Value(w)))
            /\ resp[w].text = "Invalid field types"
                   => Value(w).type = "dict" /\ AbsentKeys(Value(w)) = {}

C9_Witness ==
    \E w \in Workers :
        /\ Done(w)
        /\ Parses(w)
        /\ Value(w).type = "dict"
        /\ Value(w).items = Row("int", "str", Absent, "str")
        /\ resp[w].text = "Missing fields: memory"

\* C10: the dump of the parsed body is written exactly when all three checks
\* pass, after the two unconditional lines and before the 201 response, and
\* never in a request answered with 400.
C10_ParsedLine ==
    \A w \in Workers :
        pc[w] # "idle" =>
            LET lines == LinesOf(rid[w])
                passed == /\ Parses(w)
                          /\ Value(w).type = "dict"
                          /\ AbsentKeys(Value(w)) = {}
                          /\ ~invalid_types(Value(w))
            IN  /\ Count("jsonifyed_data", lines) <= 1
                /\ Count("jsonifyed_data", lines) = 1 =>
                       /\ lines = <<"user_agent", "data", "jsonifyed_data">>
                       /\ passed
                /\ resp[w] # Unset =>
                       /\ resp[w].status = 201 <=> Count("jsonifyed_data", lines) = 1
                       /\ passed <=> Count("jsonifyed_data", lines) = 1

C10_Witness ==
    \E w \in Workers :
        /\ pc[w] = "l32"
        /\ resp[w] = Unset
        /\ LinesOf(rid[w]) = <<"user_agent", "data", "jsonifyed_data">>

====
